---- MODULE Spec2Model ----
(***************************************************************************)
(* A model of src/app/src/app/page.tsx: the pixel pipeline of the Home     *)
(* component (boxBlur, median3x3, equalizeLuma, unsharpMask,               *)
(* computeMetrics) as operators over flat RGBA buffers, and the component's *)
(* event handlers, effects and async functions as a state machine.         *)
(*                                                                         *)
(* Buffers are functions from 0..length-1 to bytes, indexed as in the      *)
(* source.  Numbers are exact: a JavaScript double or Float32 value is     *)
(* modelled by the rational it approximates.                               *)
(***************************************************************************)
EXTENDS Integers, Sequences, FiniteSets, TLC

\* ------------------------------------------------------------------------
\* Bounds of the checked inputs
\* ------------------------------------------------------------------------
MaxDim == 3
MaxRadius == 1
MaxMarks == 1
MaxSelects == 2

\* ------------------------------------------------------------------------
\* Typed-array and number semantics
\* ------------------------------------------------------------------------

\* The value of a read past the end of a typed array (undefined) once it has
\* entered arithmetic: NaN.  Every operation below propagates it.
NaN == -2000000000

Max(a, b) == IF a >= b THEN a ELSE b
Min(a, b) == IF a <= b THEN a ELSE b
Abs(a) == IF a < 0 THEN -a ELSE a

NAdd(a, b) == IF a = NaN \/ b = NaN THEN NaN ELSE a + b
NSub(a, b) == IF a = NaN \/ b = NaN THEN NaN ELSE a - b
NMul(k, a) == IF a = NaN THEN NaN ELSE k * a

\* src[i]: undefined (NaN in arithmetic) outside the array.
Get(a, i) == IF i \in DOMAIN a THEN a[i] ELSE NaN

\* The conversion of a store into a Uint8ClampedArray: NaN becomes 0, other
\* values are clamped to 0..255.
ToUint8Clamped(v) ==
  IF v = NaN THEN 0 ELSE IF v < 0 THEN 0 ELSE IF v > 255 THEN 255 ELSE v

\* a[i] = v on a Uint8ClampedArray: a store past the end is ignored.
Put(a, i, v) ==
  IF i \in DOMAIN a THEN [a EXCEPT ![i] = ToUint8Clamped(v)] ELSE a

\* new Uint8ClampedArray(n): n zero bytes.
NewArray(n) == [i \in 0 .. n - 1 |-> 0]

\* Math.round(p / q) for q > 0: the nearest integer, halves toward +infinity.
RoundDiv(p, q) == (2 * p + q) \div (2 * q)

\* ------------------------------------------------------------------------
\* boxBlur
\* ------------------------------------------------------------------------

\* Math.round(val * iarr), iarr = 1 / (r + r + 1).
RoundMean(val, r) == IF val = NaN THEN NaN ELSE RoundDiv(val, r + r + 1)

\* let val = (r + 1) * fv; for (j < r) val += src[ti + j * step]
RECURSIVE InitialVal(_, _, _, _, _, _)
InitialVal(src, ti, step, r, j, val) ==
  IF j >= r THEN val
  ELSE InitialVal(src, ti, step, r, j + 1, NAdd(val, Get(src, ti + j * step)))

\* for (x = 0; x <= r; x++) { dst[ti] = round(val*iarr); ti += step;
\*                            val += src[ri] - fv; ri += step; }
RECURSIVE BlurHead(_, _, _, _, _, _)
BlurHead(src, s, fv, step, r, x) ==
  IF x > r THEN s
  ELSE BlurHead(src,
                [s EXCEPT !.dst = Put(s.dst, s.ti, RoundMean(s.val, r)),
                          !.ti = s.ti + step,
                          !.val = NAdd(s.val, NSub(Get(src, s.ri), fv)),
                          !.ri = s.ri + step],
                fv, step, r, x + 1)

\* for (x = r + 1; x < n - r; x++) { dst[ti] = round(val*iarr); ti += step;
\*                 val += src[ri] - src[li]; ri += step; li += step; }
RECURSIVE BlurBody(_, _, _, _, _, _)
BlurBody(src, s, step, r, n, x) ==
  IF x >= n - r THEN s
  ELSE BlurBody(src,
                [s EXCEPT !.dst = Put(s.dst, s.ti, RoundMean(s.val, r)),
                          !.ti = s.ti + step,
                          !.val = NAdd(s.val, NSub(Get(src, s.ri), Get(src, s.li))),
                          !.ri = s.ri + step,
                          !.li = s.li + step],
                step, r, n, x + 1)

\* for (x = n - r; x < n; x++) { dst[ti] = round(val*iarr); ti += step;
\*                               val += lv - src[li]; li += step; }
RECURSIVE BlurTail(_, _, _, _, _, _, _)
BlurTail(src, s, lv, step, r, n, x) ==
  IF x >= n THEN s
  ELSE BlurTail(src,
                [s EXCEPT !.dst = Put(s.dst, s.ti, RoundMean(s.val, r)),
                          !.ti = s.ti + step,
                          !.val = NAdd(s.val, NSub(lv, Get(src, s.li))),
                          !.li = s.li + step],
                lv, step, r, n, x + 1)

\* One line of one pass, for one channel: the body of the (y, c) loop of the
\* horizontal pass (step = chan, n = w) and of the (x, c) loop of the
\* vertical pass (step = w * chan, n = h).  ti is the line's first index and
\* last the index of its last sample.
BlurLine(src, dst, ti, last, step, n, r) ==
  LET fv == Get(src, ti)
      lv == Get(src, last)
      s0 == [dst |-> dst, ti |-> ti, li |-> ti, ri |-> ti + r * step,
             val |-> InitialVal(src, ti, step, r, 0, NMul(r + 1, fv))]
      s1 == BlurHead(src, s0, fv, step, r, 0)
      s2 == BlurBody(src, s1, step, r, n, r + 1)
      s3 == BlurTail(src, s2, lv, step, r, n, n - r)
  IN s3.dst

\* for (y < h) for (c < chan): the lines of the horizontal pass, in order
\* (k = y * chan + c).  A store into an empty buffer is ignored, so an empty
\* tmp is returned as it is.
RECURSIVE HorizontalPass(_, _, _, _, _, _)
HorizontalPass(src, tmp, w, h, r, k) ==
  IF k >= h * 4 \/ DOMAIN tmp = {} THEN tmp
  ELSE LET y == k \div 4
           c == k % 4
       IN HorizontalPass(src,
                         BlurLine(src, tmp, (y * w) * 4 + c,
                                  (y * w + (w - 1)) * 4 + c, 4, w, r),
                         w, h, r, k + 1)

\* for (x < w) for (c < chan): the lines of the vertical pass, in order
\* (k = x * chan + c).
RECURSIVE VerticalPass(_, _, _, _, _, _)
VerticalPass(tmp, dst, w, h, r, k) ==
  IF k >= w * 4 \/ DOMAIN dst = {} THEN dst
  ELSE LET x == k \div 4
           c == k % 4
       IN VerticalPass(tmp,
                       BlurLine(tmp, dst, (x * 4) + c,
                                ((h - 1) * w + x) * 4 + c, w * 4, h, r),
                       w, h, r, k + 1)

boxBlur(src, w, h, r) ==
  LET len == Cardinality(DOMAIN src)
      tmp == HorizontalPass(src, NewArray(len), w, h, r, 0)
  IN VerticalPass(tmp, NewArray(len), w, h, r, 0)

\* ------------------------------------------------------------------------
\* median3x3
\* ------------------------------------------------------------------------

\* vals.sort((a, b) => a - b): ascending numeric order (insertion of v).
RECURSIVE Insert(_, _)
Insert(sorted, v) ==
  IF sorted = <<>> THEN <<v>>
  ELSE IF v <= Head(sorted) THEN <<v>> \o sorted
  ELSE <<Head(sorted)>> \o Insert(Tail(sorted), v)

RECURSIVE Sort(_)
Sort(vals) == IF vals = <<>> THEN <<>> ELSE Insert(Sort(Tail(vals)), Head(vals))

\* Math.max(0, Math.min(hi, v))
Clamp(v, hi) == Max(0, Min(hi, v))

\* The nine samples pushed for pixel (x, y), channel c: j outer, i inner.
Neighbourhood(src, w, h, x, y, c) ==
  [k \in 1 .. 9 |->
     LET j == ((k - 1) \div 3) - 1
         i == ((k - 1) % 3) - 1
         xx == Clamp(x + i, w - 1)
         yy == Clamp(y + j, h - 1)
     IN src[(yy * w + xx) * 4 + c]]

median3x3(src, w, h) ==
  [n \in DOMAIN src |->
     LET p == n \div 4
         c == n % 4
         x == p % w
         y == p \div w
     IN IF y >= h THEN 0
        ELSE IF c = 3 THEN src[n]
        ELSE Sort(Neighbourhood(src, w, h, x, y, c))[5]]

\* ------------------------------------------------------------------------
\* unsharpMask
\* ------------------------------------------------------------------------

\* amount is the rational amountNum / amountDen (0.8 = 4 / 5).
unsharpMask(src, w, h, radius, amountNum, amountDen) ==
  LET blurred == boxBlur(src, w, h, radius)
  IN [n \in DOMAIN src |->
        IF n % 4 = 3 THEN src[n]
        ELSE LET s == src[n]
                 b == blurred[n]
                 \* v = s + amount * (s - b); Math.round(v)
                 v == RoundDiv(amountDen * s + amountNum * (s - b), amountDen)
             IN Max(0, Min(255, v))]

\* ------------------------------------------------------------------------
\* Wide integers
\* ------------------------------------------------------------------------

\* The products of equalizeLuma's coefficients and the squares of
\* computeMetrics exceed 32 bits.  A wide integer <<hi, lo>> stands for
\* hi * 10^8 + lo with 0 <= lo < 10^8; hi carries the sign.
E4 == 100 * 100
E8 == E4 * E4

WNorm(hi, lo) == <<hi + (lo \div E8), lo % E8>>

WZero == <<0, 0>>

WAdd(a, b) == WNorm(a[1] + b[1], a[2] + b[2])

WNeg(a) == IF a[2] = 0 THEN <<-a[1], 0>> ELSE <<-a[1] - 1, E8 - a[2]>>

\* a * b for 0 <= a, b < 10^8, by halves of four digits.
WMulPos(a, b) ==
  LET a1 == a \div E4
      a0 == a % E4
      b1 == b \div E4
      b0 == b % E4
      mid == a1 * b0 + a0 * b1
  IN WNorm(a1 * b1 + (mid \div E4), (mid % E4) * E4 + a0 * b0)

\* a * b for |a|, |b| < 10^8.
WMul(a, b) ==
  IF (a < 0) = (b < 0) THEN WMulPos(Abs(a), Abs(b))
  ELSE WNeg(WMulPos(Abs(a), Abs(b)))

\* ------------------------------------------------------------------------
\* equalizeLuma
\* ------------------------------------------------------------------------

\* yArr[k] = Math.round(y * 255), y = 0.299 r + 0.587 g + 0.114 b over
\* r = R / 255, g = G / 255, b = B / 255.
LumaBin(src, k) ==
  RoundDiv(299 * src[4 * k] + 587 * src[4 * k + 1] + 114 * src[4 * k + 2], 1000)

\* uArr[k] * 255 * 10^5, u = -0.14713 r - 0.28886 g + 0.436 b.
ChromaU(src, k) ==
  (-14713) * src[4 * k] - 28886 * src[4 * k + 1] + 43600 * src[4 * k + 2]

\* vArr[k] * 255 * 10^5, v = 0.615 r - 0.51499 g - 0.10001 b.
ChromaV(src, k) ==
  61500 * src[4 * k] - 51499 * src[4 * k + 1] - 10001 * src[4 * k + 2]

\* Math.max(0, Math.min(255, Math.round(c * 255))) for a reconstructed channel
\* c = y + t / (255 * 10^10), y = num / den the equalized luma and t the wide
\* sum of the coefficient-by-chroma products:
\* floor(255 num / den + t / 10^10 + 1 / 2).
RoundChannel(num, den, t) ==
  LET eq == (510 * num + den) \div (2 * den)
      er == (510 * num + den) % (2 * den)
      tq == t[1] \div 100
      th == t[1] % 100
      tl == (((t[2] \div E4) * 2 * den) + (((t[2] % E4) * 2 * den) \div E4)) \div E4
      carry == IF th * 2 * den + tl >= (2 * den - er) * 100 THEN 1 ELSE 0
  IN Max(0, Min(255, tq + eq + carry))

equalizeLuma(src, w, h) ==
  LET total == w * h
      yArr == [k \in 0 .. total - 1 |-> LumaBin(src, k)]
      \* cdf[i] = hist[0] + ... + hist[i]
      cdf(i) == Cardinality({k \in 0 .. total - 1 : yArr[k] <= i})
      \* cdf.find(v => v > 0) ?? 0: the first entry above 0 is that of the
      \* lowest populated bin.
      cdfMin == IF total = 0 THEN 0
                ELSE cdf(CHOOSE b \in {yArr[k] : k \in 0 .. total - 1} :
                           \A k \in 0 .. total - 1 : b <= yArr[k])
      den == Max(1, total - cdfMin)
      \* eqY[i] = max(0, min(1, (cdf[yArr[i]] - cdfMin) / den)), times den
      eqY == [k \in 0 .. total - 1 |-> Max(0, Min(den, cdf(yArr[k]) - cdfMin))]
  IN [n \in DOMAIN src |->
        LET k == n \div 4
            c == n % 4
            u == ChromaU(src, k)
            v == ChromaV(src, k)
        IN IF k >= total THEN 0
           ELSE IF c = 0 THEN RoundChannel(eqY[k], den, WMul(113983, v))
           ELSE IF c = 1 THEN
             RoundChannel(eqY[k], den, WAdd(WMul(-39465, u), WMul(-58060, v)))
           ELSE IF c = 2 THEN RoundChannel(eqY[k], den, WMul(203211, u))
           ELSE src[n]]

\* ------------------------------------------------------------------------
\* computeMetrics
\* ------------------------------------------------------------------------

\* gray[j] * 1000 = 299 R + 587 G + 114 B.
Gray(data, j) == 299 * data[4 * j] + 587 * data[4 * j + 1] + 114 * data[4 * j + 2]

\* The pixels both interior loops visit: 1 <= y < h - 1, 1 <= x < w - 1.
Interior(w, h) == (1 .. w - 2) \X (1 .. h - 2)

\* v = -gray[x-1,y] - gray[x+1,y] - gray[x,y-1] - gray[x,y+1] + 4 gray[x,y]
Laplacian(data, w, x, y) ==
  LET g(i, j) == Gray(data, j * w + i)
  IN - g(x - 1, y) - g(x + 1, y) - g(x, y - 1) - g(x, y + 1) + 4 * g(x, y)

\* LapArray with the Laplacian taken at every pixel, the neighbours clamped
\* to the image as median3x3 clamps them.
LapArrayClamped(data, w, h) ==
  [i \in 0 .. w * h - 1 |->
     LET x == i % w
         y == i \div w
         g(a, b) == Gray(data, Clamp(b, h - 1) * w + Clamp(a, w - 1))
     IN - g(x - 1, y) - g(x + 1, y) - g(x, y - 1) - g(x, y + 1) + 4 * g(x, y)]

\* lap: new Float32Array(w * h), written at the interior pixels only.
LapArray(data, w, h) ==
  [i \in 0 .. w * h - 1 |->
     IF <<i % w, i \div w>> \in Interior(w, h)
     THEN Laplacian(data, w, i % w, i \div w)
     ELSE 0]

RECURSIVE SumInts(_, _)
SumInts(f, i) == IF i < 0 THEN 0 ELSE f[i] + SumInts(f, i - 1)

\* The sum of (count * f[j] - total) ^ 2 over j = 0 .. i.
RECURSIVE SumSquaredDeviations(_, _, _, _)
SumSquaredDeviations(f, count, total, i) ==
  IF i < 0 THEN WZero
  ELSE WAdd(WMul(count * f[i] - total, count * f[i] - total),
            SumSquaredDeviations(f, count, total, i - 1))

\* variance: mean = sum / max(1, count); for (i < lap.length) variance +=
\* (lap[i] - mean) ^ 2; variance /= max(1, count).  Returned as the fraction
\* num / den of squared gray levels, num wide.
BlurVariance(data, w, h) ==
  LET lap == LapArray(data, w, h)
      count == Max(1, Cardinality(Interior(w, h)))
      total == SumInts(lap, w * h - 1)
  IN [num |-> SumSquaredDeviations(lap, count, total, w * h - 1),
      den |-> count * count * count * 1000 * 1000]

\* gx ^ 2 + gy ^ 2 at (x, y), in squared thousandths of a gray level.
SobelSquared(data, w, x, y) ==
  LET g(i, j) == Gray(data, j * w + i)
      gx == - g(x - 1, y - 1) - 2 * g(x - 1, y) - g(x - 1, y + 1)
            + g(x + 1, y - 1) + 2 * g(x + 1, y) + g(x + 1, y + 1)
      gy == - g(x - 1, y - 1) - 2 * g(x, y - 1) - g(x + 1, y - 1)
            + g(x - 1, y + 1) + 2 * g(x, y + 1) + g(x + 1, y + 1)
  IN WAdd(WMul(gx, gx), WMul(gy, gy))

\* gradEnergy: the sum of Math.hypot(gx, gy) over the interior, divided by
\* max(1, (w - 2) * (h - 2)).  A hypot is irrational in general, so the sum
\* is kept as the squared magnitudes it takes the roots of.
GradientEnergy(data, w, h) ==
  [squares |-> [p \in Interior(w, h) |-> SobelSquared(data, w, p[1], p[2])],
   den |-> Max(1, (w - 2) * (h - 2))]

\* SymmetrySum with the right half translated instead of mirrored: column x
\* is compared with column x + mid.
RECURSIVE SymmetrySumTranslated(_, _, _, _)
SymmetrySumTranslated(data, w, mid, k) ==
  IF k < 0 THEN 0
  ELSE LET x == k % mid
           y == k \div mid
           a == Gray(data, y * w + x)
           b == Gray(data, y * w + (x + mid))
       IN (255000 - Min(255000, Abs(a - b)))
          + SymmetrySumTranslated(data, w, mid, k - 1)

\* symmetryScore: sym += 1 - min(1, |a - b| / 255) over x < floor(w / 2);
\* sym / max(1, pix), as the fraction num / den.
RECURSIVE SymmetrySum(_, _, _, _)
SymmetrySum(data, w, mid, k) ==
  IF k < 0 THEN 0
  ELSE LET x == k % mid
           y == k \div mid
           a == Gray(data, y * w + x)
           b == Gray(data, y * w + (w - 1 - x))
       IN (255000 - Min(255000, Abs(a - b))) + SymmetrySum(data, w, mid, k - 1)

SymmetryScore(data, w, h) ==
  LET mid == w \div 2
      pix == h * mid
  IN [num |-> IF pix = 0 THEN 0 ELSE SymmetrySum(data, w, mid, pix - 1),
      den |-> 255000 * Max(1, pix)]

\* spoofRisk is a function of the three fields below (min(1, 0.6 (1 -
\* blurNorm) + 0.3 gradNorm + 0.1 symNorm)) and is not carried.
computeMetrics(data, w, h) ==
  [blurVariance |-> BlurVariance(data, w, h),
   gradientEnergy |-> GradientEnergy(data, w, h),
   symmetryScore |-> SymmetryScore(data, w, h)]

\* ------------------------------------------------------------------------
\* Inputs of the pipeline checks
\* ------------------------------------------------------------------------
\* The first and the third colour have the same luminance
\* (299 R + 587 G + 114 B = 66990).
Palette == << <<30, 60, 200, 255>>, <<250, 200, 10, 128>>, <<90, 24, 228, 64>> >>

Dims == 1 .. MaxDim

\* An image: a background colour and at most MaxMarks pixels of another.
Marks(w, h) == {m \in SUBSET (0 .. w * h - 1) : Cardinality(m) <= MaxMarks}

MakeData(w, h, bg, fg, marks) ==
  [n \in 0 .. w * h * 4 - 1 |->
     IF (n \div 4) \in marks THEN Palette[fg][(n % 4) + 1]
     ELSE Palette[bg][(n % 4) + 1]]

Images ==
  UNION {{[width |-> w, height |-> h, data |-> MakeData(w, h, bg, fg, m)] :
            bg \in DOMAIN Palette, fg \in DOMAIN Palette, m \in Marks(w, h)} :
         w \in Dims, h \in Dims}

\* ------------------------------------------------------------------------
\* The Home component
\* ------------------------------------------------------------------------
VARIABLES
  image,          \* the input of the pixel functions checked on their own
  pc,             \* which of them has been applied
  radius,         \* boxBlur's r
  blurred,        \* boxBlur's result
  denoised,       \* median3x3's result
  equalized,      \* equalizeLuma's result
  sharpened,      \* unsharpMask's result
  measured        \* computeMetrics' result

pvars == <<image, pc, radius, blurred, denoised, equalized, sharpened, measured>>

VARIABLES
  imageSrc,       \* useState: 0 for null, else the selected source
  loadingModels,  \* useState
  modelsReady,    \* useState
  faces,          \* useState: the FaceBox list
  facesBy,        \* the run whose setFaces call gave faces its value (0: none)
  metrics,        \* useState: <<>> for null, else <<m>>
  processing,     \* useState
  canvas,         \* canvasRef.current: its size and what its pixels are
  overlay,        \* overlayRef.current: its size and the boxes stroked
  loadPc,         \* where the loadModels call of the mount effect stands
  draws,          \* the drawImageToCanvas calls, in call order
  runs,           \* the processImage calls, in call order
  selects         \* how many files have been selected

uvars == <<imageSrc, loadingModels, modelsReady, faces, facesBy, metrics,
           processing, canvas, overlay, loadPc, draws, runs, selects>>

\* The files the user can select, by the natural size of the decoded image.
Sources == << [width |-> 640, height |-> 480],
              [width |-> 4000, height |-> 3000],
              [width |-> 1, height |-> 2049] >>

\* What detectAllFaces can resolve to.
Detections == { <<>>, << [x |-> 10, y |-> 20, width |-> 30, height |-> 40] >> }

\* A canvas element without width and height attributes is 300 by 150 and
\* transparent black.
DefaultWidth == 300
DefaultHeight == 150

\* origin: the source whose decoded image was last drawn (0: none, the
\* bitmap is blank).  passes: how many times the denoise, equalize, sharpen
\* sequence has been written over those pixels since.
BlankCanvas(w, h) == [width |-> w, height |-> h, origin |-> 0, passes |-> 0]

\* const maxDim = 1024; scale = Math.min(1, maxDim / Math.max(width, height));
\* w = Math.round(width * scale); h = Math.round(height * scale).
\* width = height = 0 (an image that failed to decode) gives scale 1.
ScaledSize(width, height) ==
  LET maxDim == 1024
      m == Max(width, height)
  IN IF m <= maxDim THEN [w |-> width, h |-> height]
     ELSE [w |-> RoundDiv(width * maxDim, m), h |-> RoundDiv(height * maxDim, m)]

\* median3x3, equalizeLuma, unsharpMask(.., 1, 0.8) over the pixels read,
\* then ctx.putImageData(outData, 0, 0): the canvas keeps its size and holds
\* the sequence's output.
Enhanced(cv) == [cv EXCEPT !.passes = @ + 1]

\* computeMetrics(outData): the metrics of the pixels just written.
MetricsOf(cv) == [of |-> cv]

\* The part of drawImageToCanvas before its await: the call is recorded with
\* the imageSrc it closed over.
StartDraw(src) == Append(draws, [src |-> src, state |-> "decoding"])

\* processImage up to its first await (or to its end when modelsReady is
\* false), called from the effect with the modelsReady it closed over.
\* The run's record keeps what it read and wrote.
StartRun(src, ready, trigger) ==
  IF canvas.width = 0 \/ canvas.height = 0
  THEN \* getImageData throws IndexSizeError after setProcessing(true)
       /\ processing' = TRUE
       /\ runs' = Append(runs, [src |-> src, trigger |-> trigger, ready |-> ready,
                                read |-> <<>>, wrote |-> <<>>, m |-> <<>>,
                                state |-> "threw", cleared |-> FALSE,
                                atEnd |-> <<[metrics |-> metrics, faces |-> faces,
                                             facesBy |-> facesBy]>>])
       /\ UNCHANGED <<canvas, metrics, faces, facesBy>>
  ELSE /\ canvas' = Enhanced(canvas)
       /\ metrics' = <<MetricsOf(Enhanced(canvas))>>
       /\ faces' = <<>>
       /\ facesBy' = Len(runs) + 1
       /\ processing' = ready
       /\ runs' = Append(runs, [src |-> src, trigger |-> trigger, ready |-> ready,
                                read |-> <<canvas>>, wrote |-> <<Enhanced(canvas)>>,
                                m |-> <<MetricsOf(Enhanced(canvas))>>,
                                state |-> IF ready THEN "awaitImport" ELSE "done",
                                cleared |-> ~ready,
                                atEnd |-> IF ready THEN <<>>
                                          ELSE <<[metrics |-> <<MetricsOf(Enhanced(canvas))>>,
                                                  faces |-> <<>>,
                                                  facesBy |-> Len(runs) + 1]>>])

ComponentInit ==
  /\ imageSrc = 0
  /\ loadingModels = FALSE
  /\ modelsReady = FALSE
  /\ faces = <<>>
  /\ facesBy = 0
  /\ metrics = <<>>
  /\ processing = FALSE
  /\ canvas = BlankCanvas(DefaultWidth, DefaultHeight)
  /\ overlay = [width |-> DefaultWidth, height |-> DefaultHeight, boxes |-> <<>>]
  /\ loadPc = "idle"
  /\ draws = <<>>
  /\ runs = <<>>
  /\ selects = 0

\* The mount effect: loadModels() up to await import(..).
LoadModelsStart ==
  /\ loadPc = "idle"
  /\ ~(modelsReady \/ loadingModels)
  /\ loadingModels' = TRUE
  /\ loadPc' = "loading"
  /\ UNCHANGED <<imageSrc, modelsReady, faces, facesBy, metrics, processing, canvas,
                 overlay, draws, runs, selects>>
  /\ UNCHANGED pvars

\* The import and both loadFromUri calls resolved: setModelsReady(true),
\* setLoadingModels(false).  processImage depends on modelsReady, so its
\* effect runs again: if (imageSrc) processImage().
ModelsLoaded ==
  /\ loadPc = "loading"
  /\ modelsReady' = TRUE
  /\ loadingModels' = FALSE
  /\ loadPc' = "done"
  /\ IF imageSrc # 0
     THEN StartRun(imageSrc, TRUE, "modelsReady")
     ELSE UNCHANGED <<faces, facesBy, metrics, processing, canvas, runs>>
  /\ UNCHANGED <<imageSrc, overlay, draws, selects>>
  /\ UNCHANGED pvars

\* The import or a loadFromUri call rejected: loadModels().catch(() => {}).
ModelsFailed ==
  /\ loadPc = "loading"
  /\ loadPc' = "failed"
  /\ UNCHANGED <<imageSrc, loadingModels, modelsReady, faces, facesBy, metrics,
                 processing, canvas, overlay, draws, runs, selects>>
  /\ UNCHANGED pvars


\* reader.onload: setImageSrc(reader.result).  A result equal to imageSrc
\* renders nothing.  Otherwise both effects that depend on imageSrc run, in
\* the order they are declared and in one task: drawImageToCanvas() up to
\* await img.decode(), then processImage() up to its first await.  The
\* mount effect has run before any file can be selected.
SelectFile(i) ==
  /\ loadPc # "idle"
  /\ selects < MaxSelects
  /\ i # imageSrc
  /\ selects' = selects + 1
  /\ imageSrc' = i
  /\ draws' = StartDraw(i)
  /\ StartRun(i, modelsReady, "imageSrc")
  /\ UNCHANGED <<loadingModels, modelsReady, overlay, loadPc>>
  /\ UNCHANGED pvars

\* drawImageToCanvas after await img.decode().catch(() => {}): the canvas
\* takes the scaled size, which clears it, and the image is drawn.  An
\* image that failed to decode has width = height = 0 and draws nothing.
DrawComplete(d, decoded) ==
  /\ draws[d].state = "decoding"
  /\ LET img == IF decoded THEN Sources[draws[d].src]
                ELSE [width |-> 0, height |-> 0]
         size == ScaledSize(img.width, img.height)
     IN canvas' = [width |-> size.w, height |-> size.h,
                   origin |-> IF decoded THEN draws[d].src ELSE 0,
                   passes |-> 0]
  /\ draws' = [draws EXCEPT ![d].state = "done"]
  /\ UNCHANGED <<imageSrc, loadingModels, modelsReady, faces, facesBy, metrics,
                 processing, overlay, loadPc, runs, selects>>
  /\ UNCHANGED pvars

\* processImage after await import("@vladmandic/face-api"): detectAllFaces
\* is called and awaited.
ImportResolved(r) ==
  /\ runs[r].state = "awaitImport"
  /\ runs' = [runs EXCEPT ![r].state = "awaitDetect"]
  /\ UNCHANGED <<imageSrc, loadingModels, modelsReady, faces, facesBy, metrics,
                 processing, canvas, overlay, loadPc, draws, selects>>
  /\ UNCHANGED pvars

\* processImage after await faceapi.detectAllFaces(..): setFaces(bbs), the
\* overlay takes the canvas' size and the boxes, setProcessing(false).
DetectResolved(r, bbs) ==
  /\ runs[r].state = "awaitDetect"
  /\ faces' = bbs
  /\ facesBy' = r
  /\ overlay' = [width |-> canvas.width, height |-> canvas.height, boxes |-> bbs]
  /\ processing' = FALSE
  /\ runs' = [runs EXCEPT ![r].state = "done", ![r].cleared = TRUE,
                          ![r].atEnd = <<[metrics |-> metrics, faces |-> bbs,
                                          facesBy |-> r]>>]
  /\ UNCHANGED <<imageSrc, loadingModels, modelsReady, metrics, canvas,
                 loadPc, draws, selects>>
  /\ UNCHANGED pvars

\* The import or detectAllFaces rejected: processImage's promise rejects and
\* nothing after the await runs.
DetectRejected(r) ==
  /\ runs[r].state \in {"awaitImport", "awaitDetect"}
  /\ runs' = [runs EXCEPT ![r].state = "rejected",
                          ![r].atEnd = <<[metrics |-> metrics, faces |-> faces,
                                          facesBy |-> facesBy]>>]
  /\ UNCHANGED <<imageSrc, loadingModels, modelsReady, faces, facesBy, metrics,
                 processing, canvas, overlay, loadPc, draws, selects>>
  /\ UNCHANGED pvars

PipeIdle ==
  /\ image = [width |-> 0, height |-> 0, data |-> <<>>]
  /\ pc = "idle"
  /\ radius = 0
  /\ blurred = <<>>
  /\ denoised = <<>>
  /\ equalized = <<>>
  /\ sharpened = <<>>
  /\ measured = <<>>

Init == ComponentInit /\ PipeIdle

Next ==
  \/ LoadModelsStart
  \/ ModelsLoaded
  \/ ModelsFailed
  \/ \E i \in DOMAIN Sources : SelectFile(i)
  \/ \E d \in DOMAIN draws, decoded \in BOOLEAN : DrawComplete(d, decoded)
  \/ \E r \in DOMAIN runs : ImportResolved(r)
  \/ \E r \in DOMAIN runs, bbs \in Detections : DetectResolved(r, bbs)
  \/ \E r \in DOMAIN runs : DetectRejected(r)

vars == <<pvars, uvars>>

Spec == Init /\ [][Next]_vars

\* ------------------------------------------------------------------------
\* The pixel functions applied to an input: boxBlur and computeMetrics on
\* the input itself, and the stages in processImage's order.
\* ------------------------------------------------------------------------
NoBuffer == <<>>
NoMetrics == <<>>

PipeInit ==
  /\ ComponentInit
  /\ image \in Images
  /\ pc = "start"
  /\ radius = 0
  /\ blurred = NoBuffer
  /\ denoised = NoBuffer
  /\ equalized = NoBuffer
  /\ sharpened = NoBuffer
  /\ measured = NoMetrics

\* boxBlur(src, w, h, r)
RunBoxBlur ==
  /\ pc = "start"
  /\ \E r \in 0 .. MaxRadius :
       /\ radius' = r
       /\ blurred' = boxBlur(image.data, image.width, image.height, r)
  /\ pc' = "blurred"
  /\ UNCHANGED <<image, denoised, equalized, sharpened, measured>>
  /\ UNCHANGED uvars

\* computeMetrics(data) on the input image
RunMetrics ==
  /\ pc = "start"
  /\ measured' = computeMetrics(image.data, image.width, image.height)
  /\ pc' = "measured"
  /\ UNCHANGED <<image, radius, blurred, denoised, equalized, sharpened>>
  /\ UNCHANGED uvars

\* const denoised = median3x3(imgData.data, canvas.width, canvas.height)
Denoise ==
  /\ pc = "start"
  /\ denoised' = median3x3(image.data, image.width, image.height)
  /\ pc' = "denoised"
  /\ UNCHANGED <<image, radius, blurred, equalized, sharpened, measured>>
  /\ UNCHANGED uvars

\* const equalized = equalizeLuma(denoised, canvas.width, canvas.height)
Equalize ==
  /\ pc = "denoised"
  /\ equalized' = equalizeLuma(denoised, image.width, image.height)
  /\ pc' = "equalized"
  /\ UNCHANGED <<image, radius, blurred, denoised, sharpened, measured>>
  /\ UNCHANGED uvars

\* const sharpened = unsharpMask(equalized, canvas.width, canvas.height, 1, 0.8)
Sharpen ==
  /\ pc = "equalized"
  /\ sharpened' = unsharpMask(equalized, image.width, image.height, 1, 4, 5)
  /\ pc' = "sharpened"
  /\ UNCHANGED <<image, radius, blurred, denoised, equalized, measured>>
  /\ UNCHANGED uvars

\* const m = computeMetrics(outData)
Measure ==
  /\ pc = "sharpened"
  /\ measured' = computeMetrics(sharpened, image.width, image.height)
  /\ pc' = "done"
  /\ UNCHANGED <<image, radius, blurred, denoised, equalized, sharpened>>
  /\ UNCHANGED uvars

PipeNext ==
  \/ RunBoxBlur
  \/ RunMetrics
  \/ Denoise
  \/ Equalize
  \/ Sharpen
  \/ Measure

PipeSpec == PipeInit /\ [][PipeNext]_vars

\* ------------------------------------------------------------------------
\* C3, C4: boxBlur
\* ------------------------------------------------------------------------

\* The mean the claim describes: of the 2r+1 samples at positions
\* i-r .. i+r of a line of n samples, a position outside 0 .. n-1 taking the
\* nearest edge sample, rounded.
RECURSIVE WindowSum(_, _, _, _)
WindowSum(line, n, i, d) ==
  IF d < 0 THEN 0
  ELSE line[Clamp(i - d, n - 1)] + (IF d = 0 THEN 0 ELSE line[Clamp(i + d, n - 1)])
       + WindowSum(line, n, i, d - 1)

CentredMean(line, n, i, r) == RoundDiv(WindowSum(line, n, i, r), r + r + 1)

CentredHorizontal(src, w, h, r) ==
  [k \in DOMAIN src |->
     LET c == k % 4
         x == (k \div 4) % w
         y == (k \div 4) \div w
     IN CentredMean([i \in 0 .. w - 1 |-> src[(y * w + i) * 4 + c]], w, x, r)]

CentredVertical(tmp, w, h, r) ==
  [k \in DOMAIN tmp |->
     LET c == k % 4
         x == (k \div 4) % w
         y == (k \div 4) \div w
     IN CentredMean([j \in 0 .. h - 1 |-> tmp[(j * w + x) * 4 + c]], h, y, r)]

\* C3: every sample of boxBlur's result is the rounded mean of the 2r+1
\* edge-replicated samples centred on it, horizontally and then vertically.
C3_CentredWindow ==
  pc = "blurred" =>
    blurred = CentredVertical(
                CentredHorizontal(image.data, image.width, image.height, radius),
                image.width, image.height, radius)

\* C4: boxBlur with radius 0 returns a buffer equal to its input.
C4_RadiusZeroIdentity ==
  (pc = "blurred" /\ radius = 0) => blurred = image.data

\* ------------------------------------------------------------------------
\* C5, C6: computeMetrics
\* ------------------------------------------------------------------------

\* The sum of (count * lap(p) - total) ^ 2 over the interior pixels only.
RECURSIVE InteriorSquaredDeviations(_, _, _, _, _)
InteriorSquaredDeviations(data, w, count, total, todo) ==
  IF todo = {} THEN WZero
  ELSE LET p == CHOOSE q \in todo : TRUE
           d == count * Laplacian(data, w, p[1], p[2]) - total
       IN WAdd(WMul(d, d),
               InteriorSquaredDeviations(data, w, count, total, todo \ {p}))

\* C5: blurVariance is the population variance of the Laplacian over the
\* interior pixels only.
C5_InteriorVariance ==
  pc = "measured" =>
    LET w == image.width
        h == image.height
        lap == LapArray(image.data, w, h)
        count == Max(1, Cardinality(Interior(w, h)))
        total == SumInts(lap, w * h - 1)
    IN /\ measured.blurVariance.den = count * count * count * 1000 * 1000
       /\ measured.blurVariance.num =
            InteriorSquaredDeviations(image.data, w, count, total, Interior(w, h))

\* Y(x, y) = Y(w - 1 - x, y) at every pixel.
MirrorSymmetric(img) ==
  \A x \in 0 .. img.width - 1, y \in 0 .. img.height - 1 :
    Gray(img.data, y * img.width + x)
      = Gray(img.data, y * img.width + (img.width - 1 - x))

\* C6 as stated: a mirror-symmetric image of any width >= 1 scores 1.0.
C6_SymmetricScoresOne ==
  (pc = "measured" /\ MirrorSymmetric(image)) =>
    measured.symmetryScore.num = measured.symmetryScore.den

\* C6 amended: a mirror-symmetric image of width >= 2 has symmetryScore 1.0,
\* and an image of width 1, which has no pair to compare, has 0.
C6_SymmetricScoresOneFromWidth2 ==
  (pc = "measured" /\ MirrorSymmetric(image)) =>
    IF image.width >= 2
    THEN measured.symmetryScore.num = measured.symmetryScore.den
    ELSE measured.symmetryScore.num = 0

C6_Witness ==
  /\ pc = "measured"
  /\ MirrorSymmetric(image)
  /\ image.width >= 2
  /\ \E k \in DOMAIN image.data : image.data[k] # image.data[k % 4]

\* ------------------------------------------------------------------------
\* C7: images smaller than 3x3
\* ------------------------------------------------------------------------
IsBuffer(b, len) ==
  /\ DOMAIN b = 0 .. len - 1
  /\ \A k \in DOMAIN b : b[k] \in 0 .. 255

\* C7: for width < 3 or height < 3 the four stages complete, each stage's
\* buffer has the input's length, no denominator is 0, and blurVariance and
\* gradientEnergy are 0.
C7_SmallImages ==
  (image.width < 3 \/ image.height < 3) =>
    LET len == image.width * image.height * 4
    IN /\ pc \in {"denoised", "equalized", "sharpened", "done"} => IsBuffer(denoised, len)
       /\ pc \in {"equalized", "sharpened", "done"} => IsBuffer(equalized, len)
       /\ pc \in {"sharpened", "done"} => IsBuffer(sharpened, len)
       /\ pc = "done" =>
            /\ measured.blurVariance.den >= 1
            /\ measured.gradientEnergy.den >= 1
            /\ measured.symmetryScore.den >= 1
            /\ measured.blurVariance.num = WZero
            /\ \A p \in DOMAIN measured.gradientEnergy.squares :
                 measured.gradientEnergy.squares[p] = WZero

C7_Witness ==
  /\ pc = "done"
  /\ image.width < 3
  /\ image.height < 3
  /\ sharpened # image.data

\* ------------------------------------------------------------------------
\* C1, C2, C8, C9, C10: the component
\* ------------------------------------------------------------------------

\* What drawImageToCanvas leaves on the canvas for source i.
DrawnCanvas(i) ==
  LET size == ScaledSize(Sources[i].width, Sources[i].height)
  IN [width |-> size.w, height |-> size.h, origin |-> i, passes |-> 0]

\* C1: the pixels a processImage run reads after an image is selected are
\* the downscaled pixels of that image, drawn by drawImageToCanvas.
C1_ReadsSelectedImage ==
  \A r \in DOMAIN runs :
    runs[r].trigger = "imageSrc" => runs[r].read = <<DrawnCanvas(runs[r].src)>>

\* A run that came to the face detection step and got no boxes from it: the
\* detector was unavailable, or the import or detectAllFaces rejected.
DetectorFailed(run) ==
  \/ run.state = "rejected"
  \/ run.state = "done" /\ ~run.ready

\* C2: when a run ends with the detector unavailable or rejecting, the run
\* has written its enhanced pixels, the metrics state holds the run's
\* metrics and the faces state is the empty list.
C2_DetectorFailureKeepsResults ==
  \A r \in DOMAIN runs :
    DetectorFailed(runs[r]) =>
      /\ runs[r].wrote # <<>>
      /\ runs[r].atEnd[1].metrics = runs[r].m
      /\ runs[r].atEnd[1].faces = <<>>

\* The same with the results of a run started later accepted in the place
\* of the run's own: the metrics are the run's or a later run's, and the
\* faces are empty unless a later run set them.
DetectorFailureKeepsOwnOrLaterResults ==
  \A r \in DOMAIN runs :
    DetectorFailed(runs[r]) =>
      /\ runs[r].wrote # <<>>
      /\ \E k \in r .. Len(runs) : runs[r].atEnd[1].metrics = runs[k].m
      /\ \/ runs[r].atEnd[1].faces = <<>>
         \/ runs[r].atEnd[1].facesBy > r

\* C8: the canvas size set for a decoded image of width, height >= 1 is
\* within 1 .. 1024 in both dimensions.
C8_CanvasSizeInRange ==
  canvas.origin # 0 =>
    /\ canvas.width \in 1 .. 1024
    /\ canvas.height \in 1 .. 1024

\* C9: with one image selected, no processImage run reads pixels that an
\* earlier run wrote.
C9_NeverReadsOwnOutput ==
  selects <= 1 =>
    \A r \in DOMAIN runs :
      \A k \in DOMAIN runs[r].read : runs[r].read[k].passes = 0

\* C10: a run whose promise has settled has set processing back to false.
C10_ProcessingCleared ==
  \A r \in DOMAIN runs :
    runs[r].state \in {"done", "threw", "rejected"} => runs[r].cleared
====
